---- MODULE Spec2Model ----
(***************************************************************************)
(* The proxy of checkinn (src/unnamed/part_001): the finance route         *)
(* /api/data, the Lodgify properties and bookings routes, the single-call  *)
(* helper lodgifyGet and the bookings aggregation loop (page/size, then    *)
(* the offset/limit fallback).                                             *)
(*                                                                         *)
(* Representation.                                                         *)
(*  - A query-string value is a record: absent, the empty string, the      *)
(*    decimal text of an integer (QNum(n)), or a text that is no number    *)
(*    (QText).                                                             *)
(*  - An upstream body (txt) is a record: non-JSON text, the JSON value    *)
(*    null, a JSON object without an items array, or a JSON object whose   *)
(*    items array has len entries and whose first entry has id first.      *)
(*    The handler reads nothing of an item but items[0].id and             *)
(*    items.length, so an items array is kept as that pair (a chunk), and  *)
(*    the arrays all / all2 are the sequences of the non-empty chunks      *)
(*    pushed, in push order; length(all) is all.length.                    *)
(*  - null stands for JS null and undefined, NaN for the number NaN; the   *)
(*    other numbers are integers.                                          *)
(*  - Every upstream call carries timer: whether fetchWithTimeout's timer  *)
(*    is armed for it.                                                     *)
(*  - from / to are copied unchanged into every URL and are left out.      *)
(***************************************************************************)
EXTENDS Integers, Sequences, FiniteSets, TLC

VARIABLES
    LODGIFY_API_KEY,  \* TRUE iff process.env.LODGIFY_API_KEY is a non-empty string
    req,              \* run -> the inbound request (route, query)
    pc,               \* run -> where its handler stands
    loc,              \* run -> the handler's locals
    res,              \* run -> the express response object
    calls             \* run -> the upstream calls issued so far, in order

vars == <<LODGIFY_API_KEY, req, pc, loc, res, calls>>

null == -1
NaN == -2

\* ---- bounds -------------------------------------------------------------
\* the page safety bound of the page/size loop (5000 in the source)
MaxPage == 3
\* the iteration safety bound of the offset/limit loop (20000 in the source)
MaxSafety == 2

\* ---- program constants --------------------------------------------------
SizeMax == 500
SizeMin == 1
SizeDefault == 200
TimeoutStatus == 504
ErrorStatus == 500
DefaultStatus == 200

\* Math.min, Math.max: NaN when an argument is NaN
Min(a, b) == IF a = NaN \/ b = NaN THEN NaN ELSE IF a < b THEN a ELSE b
Max(a, b) == IF a = NaN \/ b = NaN THEN NaN ELSE IF a > b THEN a ELSE b
\* a < b and a + b on numbers
lt(a, b) == a # NaN /\ b # NaN /\ a < b
plus(a, b) == IF a = NaN \/ b = NaN THEN NaN ELSE a + b

\* ---- inputs -------------------------------------------------------------
Runs == {1}

QAbsent == [k |-> "absent", v |-> 0]
QEmpty == [k |-> "empty", v |-> 0]
QNum(n) == [k |-> "num", v |-> n]
\* a non-empty string that is no number, such as "abc"
QText == [k |-> "text", v |-> 0]

PageInputs == {QAbsent, QEmpty} \cup {QNum(n) : n \in 0..2}
SizeInputs ==
    {QAbsent, QText} \cup {QNum(n) : n \in {0 - 3, 0, 1, 2, SizeMax + 1}}
Routes == {"bookings", "properties"}
Requests ==
    [route : Routes, page : PageInputs, size : SizeInputs]
        \cup {[route |-> "data", page |-> QAbsent, size |-> QAbsent]}

\* first-item ids the upstream may send: none (null), a falsy id, two truthy ids
FirstIds == {null, 0, 1, 2}
UpStatuses == {200, 404, 503}
FetchErrors == {"AbortError", "TypeError"}

NoTxt == [k |-> "none", first |-> null, len |-> 0]
TxtText == [k |-> "text", first |-> null, len |-> 0]
TxtNull == [k |-> "null", first |-> null, len |-> 0]
TxtObj == [k |-> "obj", first |-> null, len |-> 0]
TxtItems(f, n) == [k |-> "items", first |-> f, len |-> n]

\* item counts of an upstream page when the page size is S: empty, one item,
\* one short of full, full (the upstream sends no more than it was asked for)
Lens(S) == IF S = NaN THEN {0, 1} ELSE {n \in {0, 1, S - 1, S} : n >= 0}
UpstreamBodies(S) ==
    {TxtText, TxtNull, TxtObj, TxtItems(null, 0)}
        \cup {TxtItems(f, n) : f \in FirstIds, n \in Lens(S) \ {0}}
\* the page sizes a request of Requests can lead to, and every body
Sizes == {SizeMin, SizeMin + 1, SizeDefault, SizeMax, NaN}
Bodies == UNION {UpstreamBodies(S) : S \in Sizes}

\* ---- JavaScript values --------------------------------------------------
\* truthiness of a number-or-null (null, undefined, 0 and NaN are falsy)
Truthy(v) == v # null /\ v # 0 /\ v # NaN
\* truthiness of a query-string value (undefined and "" are falsy, "0" is not)
StrTruthy(q) == q.k \in {"num", "text"}
Number(q) == IF q.k = "text" THEN NaN ELSE q.v

\* r.ok of a fetch Response
ok(status) == status >= 200 /\ status <= 299

\* JSON.parse(txt) throws a SyntaxError
ParseThrows(txt) == txt.k = "text"
\* data.items throws a TypeError (data is null)
ItemsThrows(txt) == txt.k = "null"
\* Array.isArray(data.items) ? data.items : []
itemsOf(txt) ==
    IF txt.k = "items" THEN [first |-> txt.first, len |-> txt.len]
    ELSE [first |-> null, len |-> 0]
\* items?.[0]?.id ?? null
firstId(items) == IF items.len = 0 THEN null ELSE items.first

RECURSIVE length(_)
length(a) == IF a = <<>> THEN 0 ELSE a[1].len + length(Tail(a))

\* mutant: the items go to the front of the collection
push_front(a, items) == IF items.len = 0 THEN a ELSE <<items>> \o a

\* all.push(...items)
push(a, items) == IF items.len = 0 THEN a ELSE Append(a, items)

\* ---- request parameters -------------------------------------------------
size(query) ==
    Min(SizeMax, Max(SizeMin,
        IF StrTruthy(query.size) THEN Number(query.size) ELSE SizeDefault))

clientPage(query) == IF StrTruthy(query.page) THEN Number(query.page) ELSE null

\* mutant: the key check always passes
requireLodgifyKey_always(key) == TRUE

requireLodgifyKey(key) == key

\* ---- responses ----------------------------------------------------------
NoBody ==
    [kind |-> "none", ok |-> FALSE, mode |-> "", items |-> <<>>, total |-> 0,
     error |-> "", txt |-> NoTxt]
ErrorBody(e) == [NoBody EXCEPT !.kind = "error", !.error = e]
AggBody(m, a) ==
    [NoBody EXCEPT !.kind = "agg", !.ok = TRUE, !.mode = m, !.items = a,
                   !.total = length(a)]
RelayBody(txt) == [NoBody EXCEPT !.kind = "relay", !.txt = txt]

NoRes ==
    [sent |-> 0, status |-> DefaultStatus, ctype |-> "none", nocache |-> FALSE,
     body |-> NoBody]

\* mutant: the anti-cache headers are never set
setNoCache_none(r) == r

\* res.status(s).json(b)
json(r, s, b) ==
    [r EXCEPT !.sent = @ + 1, !.status = s, !.ctype = "json", !.body = b]
\* res.status(s).type("text/plain").send(txt)
sendText(r, s, txt) ==
    [r EXCEPT !.sent = @ + 1, !.status = s, !.ctype = "text",
              !.body = RelayBody(txt)]
\* the three res.setHeader calls
setNoCache(r) == [r EXCEPT !.nocache = TRUE]

\* mutant: the page asked for is one ahead of the loop's counter
PageSizeCall_ahead(p, s) ==
    [scheme |-> "page/size", page |-> p + 1, size |-> s, offset |-> null,
     limit |-> null, status |-> 0, txt |-> [k |-> "none", first |-> null,
     len |-> 0], err |-> "", timer |-> TRUE]

\* ---- upstream calls -----------------------------------------------------
Call(scheme, p, s, o, l) ==
    [scheme |-> scheme, page |-> p, size |-> s, offset |-> o, limit |-> l,
     status |-> 0, txt |-> NoTxt, err |-> "", timer |-> TRUE]
PageSizeCall(p, s) == Call("page/size", p, s, null, null)
OffsetLimitCall(o, l) == Call("offset/limit", null, null, o, l)
QueryCall(query) ==
    Call("query",
         IF StrTruthy(query.page) THEN Number(query.page) ELSE null,
         IF StrTruthy(query.size) THEN Number(query.size) ELSE null,
         null, null)
\* the finance route calls fetch itself: no timer
DataCall == [Call("query", null, null, null, null) EXCEPT !.timer = FALSE]

NoLoc ==
    [phase |-> "none", size |-> null, page |-> null, all |-> <<>>,
     lastFirstId |-> null, stagnationHits |-> 0,
     offset |-> null, limit |-> null, all2 |-> <<>>, safety |-> 0]

Last(s) == s[Len(s)]
SetLast(s, f, v) == [s EXCEPT ![Len(s)] = [@ EXCEPT ![f] = v]]

Init ==
    /\ LODGIFY_API_KEY \in BOOLEAN
    /\ req \in [Runs -> Requests]
    /\ pc = [r \in Runs |-> "new"]
    /\ loc = [r \in Runs |-> NoLoc]
    /\ res = [r \in Runs |-> NoRes]
    /\ calls = [r \in Runs |-> <<>>]

\* ---- the aggregation loop's decisions -----------------------------------
\* the stagnation counter after a page/size page (lines 244-248)
stagnation(fid, lastFirstId, stagnationHits) ==
    IF Truthy(fid) /\ Truthy(lastFirstId) /\ fid = lastFirstId
    THEN stagnationHits + 1
    ELSE 0

\* mutant: no page safety bound
pageSizeExit_noSafety(n, S, stagnationHits, page) ==
    IF n = 0 THEN "empty"
    ELSE IF lt(n, S) THEN "short"
    ELSE IF stagnationHits >= 2 THEN "stagnation"
    ELSE "continue"

\* mutant: the fallback needs three stagnation hits
pageSizeExit_threeHits(n, S, stagnationHits, page) ==
    IF n = 0 THEN "empty"
    ELSE IF lt(n, S) THEN "short"
    ELSE IF stagnationHits >= 3 THEN "stagnation"
    ELSE IF page + 1 > MaxPage THEN "safety"
    ELSE "continue"

\* how one iteration of the page/size loop ends, for a page of n items, page
\* size S, the updated stagnation counter and the page index just fetched
pageSizeExit(n, S, stagnationHits, page) ==
    IF n = 0 THEN "empty"
    ELSE IF lt(n, S) THEN "short"
    ELSE IF stagnationHits >= 2 THEN "stagnation"
    ELSE IF page + 1 > MaxPage THEN "safety"
    ELSE "continue"

\* the test after the page/size loop: answer from it, or go on to offset/limit
returnsPageSize(a) == length(a) > 0

\* mutant: the offset/limit loop has no safety bound
offsetExit_noSafety(n, limit, safety) ==
    IF n = 0 THEN "empty"
    ELSE IF lt(n, limit) THEN "short"
    ELSE "continue"

\* mutant: a full page ends the offset/limit loop as a short one does
offsetExit_fullIsShort(n, limit, safety) ==
    IF n = 0 THEN "empty"
    ELSE IF n <= limit THEN "short"
    ELSE IF safety + 1 > MaxSafety THEN "safety"
    ELSE "continue"

\* how one iteration of the offset/limit loop ends, for n items and the
\* value of safety before the iteration
offsetExit(n, limit, safety) ==
    IF n = 0 THEN "empty"
    ELSE IF lt(n, limit) THEN "short"
    ELSE IF safety + 1 > MaxSafety THEN "safety"
    ELSE "continue"

\* mutant: an upstream error is answered with what was accumulated
upstreamError_partial(r, status, txt) ==
    json(r, status, AggBody("page/size", <<itemsOf(txt)>>))

\* mutant: the offset advances by one item
advance_byOne(offset, limit) == plus(offset, 1)

\* offset += limit
advance(offset, limit) == plus(offset, limit)

\* the response to an upstream non-2xx inside the aggregation (234, 295)
upstreamError(r, status, txt) == sendText(r, status, txt)
\* the handlers' catch blocks (68, 169, 322)
catch(r, route) ==
    json(r, ErrorStatus,
         ErrorBody(IF route = "bookings" THEN "lodgify_bookings_failed"
                   ELSE IF route = "properties" THEN "lodgify_properties_failed"
                   ELSE "proxy_failed"))
\* requireLodgifyKey's response
missingKey(r) == json(r, ErrorStatus, ErrorBody("missing_lodgify_key"))
\* mutant: lodgifyGet answers and rethrows, and the route's catch answers
\* again
fetchFailed_rethrown(r, e) ==
    catch(json(r, TimeoutStatus, ErrorBody("lodgify_fetch_failed")),
          "properties")

\* lodgifyGet's catch around fetchWithTimeout
fetchFailed(r, e) ==
    json(r, TimeoutStatus,
         ErrorBody(IF e = "AbortError" THEN "lodgify_timeout"
                   ELSE "lodgify_fetch_failed"))
\* lodgifyGet's relay: res.status(r.status), then JSON if parseable, else text
relay(r, status, txt) ==
    [r EXCEPT !.sent = @ + 1, !.status = status,
              !.ctype = IF ParseThrows(txt) THEN "text" ELSE "json",
              !.body = RelayBody(txt)]

\* ---- actions ------------------------------------------------------------
\* mutant: the locals are module-level variables, one copy for every request
frame_shared(r) == 1

\* where the locals of invocation r live: the handler declares them with
\* const / let inside its own body, so every invocation has its own
frame(r) == r

\* GET /api/data, up to the await of the upstream fetch
Data(r) ==
    /\ pc[r] = "new"
    /\ req[r].route = "data"
    /\ loc' = [loc EXCEPT ![frame(r)].phase = "data"]
    /\ calls' = [calls EXCEPT ![r] = Append(@, DataCall)]
    /\ pc' = [pc EXCEPT ![r] = "fetch"]
    /\ UNCHANGED <<LODGIFY_API_KEY, req, res>>

\* GET /api/lodgify/properties, up to the await of the upstream fetch
Properties(r) ==
    /\ pc[r] = "new"
    /\ req[r].route = "properties"
    /\ IF ~requireLodgifyKey(LODGIFY_API_KEY)
       THEN /\ res' = [res EXCEPT ![r] = missingKey(@)]
            /\ pc' = [pc EXCEPT ![r] = "done"]
            /\ UNCHANGED <<loc, calls>>
       ELSE /\ res' = [res EXCEPT ![r] = setNoCache(@)]
            /\ loc' = [loc EXCEPT ![frame(r)].phase = "lodgifyGet"]
            /\ calls' = [calls EXCEPT ![r] = Append(@, QueryCall(req[r]))]
            /\ pc' = [pc EXCEPT ![r] = "fetch"]
    /\ UNCHANGED <<LODGIFY_API_KEY, req>>

\* GET /api/lodgify/bookings, up to the await of the first upstream fetch
Bookings(r) ==
    /\ pc[r] = "new"
    /\ req[r].route = "bookings"
    /\ IF ~requireLodgifyKey(LODGIFY_API_KEY)
       THEN /\ res' = [res EXCEPT ![r] = missingKey(@)]
            /\ pc' = [pc EXCEPT ![r] = "done"]
            /\ UNCHANGED <<loc, calls>>
       ELSE LET S == size(req[r])
                cp == clientPage(req[r])
            IN  /\ res' = [res EXCEPT ![r] = setNoCache(@)]
                /\ pc' = [pc EXCEPT ![r] = "fetch"]
                /\ IF Truthy(cp)
                   THEN /\ loc' = [loc EXCEPT ![frame(r)].phase = "lodgifyGet",
                                              ![frame(r)].size = S]
                        /\ calls' = [calls EXCEPT
                                        ![r] = Append(@, PageSizeCall(cp, S))]
                   ELSE /\ loc' = [loc EXCEPT ![frame(r)].phase = "page/size",
                                              ![frame(r)].size = S,
                                              ![frame(r)].page = 1,
                                              ![frame(r)].all = <<>>,
                                              ![frame(r)].lastFirstId = null,
                                              ![frame(r)].stagnationHits = 0]
                        /\ calls' = [calls EXCEPT
                                        ![r] = Append(@, PageSizeCall(1, S))]
    /\ UNCHANGED <<LODGIFY_API_KEY, req>>

\* fetchWithTimeout resolves: the upstream's status line and headers arrived
FetchResolve(r, status) ==
    /\ pc[r] = "fetch"
    /\ calls' = [calls EXCEPT
                    ![r] = SetLast(SetLast(@, "status", status), "timer", FALSE)]
    /\ pc' = [pc EXCEPT ![r] = "text"]
    /\ UNCHANGED <<LODGIFY_API_KEY, req, loc, res>>

\* the fetch rejects: the armed timer aborted the call (AbortError) or the
\* network failed (TypeError)
FetchReject(r, e) ==
    /\ pc[r] = "fetch"
    /\ e = "AbortError" => Last(calls[r]).timer
    /\ calls' = [calls EXCEPT
                    ![r] = SetLast(SetLast(@, "err", e), "timer", FALSE)]
    /\ res' = [res EXCEPT ![r] = IF loc[frame(r)].phase = "lodgifyGet"
                                 THEN fetchFailed(@, e)
                                 ELSE catch(@, req[r].route)]
    /\ pc' = [pc EXCEPT ![r] = "done"]
    /\ UNCHANGED <<LODGIFY_API_KEY, req, loc>>

\* r.text() rejects (the body stream failed): every caller awaits it inside
\* the handler's try
TextReject(r) ==
    /\ pc[r] = "text"
    /\ calls' = [calls EXCEPT ![r] = SetLast(@, "err", "body")]
    /\ res' = [res EXCEPT ![r] = catch(@, req[r].route)]
    /\ pc' = [pc EXCEPT ![r] = "done"]
    /\ UNCHANGED <<LODGIFY_API_KEY, req, loc>>

\* /api/data after r.text(): relay status and body
DataRelay(r, txt) ==
    /\ pc[r] = "text"
    /\ loc[frame(r)].phase = "data"
    /\ txt \in UpstreamBodies(SizeMin)
    /\ calls' = [calls EXCEPT ![r] = SetLast(@, "txt", txt)]
    /\ res' = [res EXCEPT ![r] = relay(@, Last(calls[r]).status, txt)]
    /\ pc' = [pc EXCEPT ![r] = "done"]
    /\ UNCHANGED <<LODGIFY_API_KEY, req, loc>>

\* lodgifyGet after r.text(): relay status and body
LodgifyGetRelay(r, txt) ==
    /\ pc[r] = "text"
    /\ loc[frame(r)].phase = "lodgifyGet"
    /\ txt \in UpstreamBodies(SizeMin)
    /\ calls' = [calls EXCEPT ![r] = SetLast(@, "txt", txt)]
    /\ res' = [res EXCEPT ![r] = relay(@, Last(calls[r]).status, txt)]
    /\ pc' = [pc EXCEPT ![r] = "done"]
    /\ UNCHANGED <<LODGIFY_API_KEY, req, loc>>

\* one iteration of the page/size loop from r.text() on, with what follows
\* it up to the next await or the response
PageSizeStep(r, txt) ==
    /\ pc[r] = "text"
    /\ loc[frame(r)].phase = "page/size"
    /\ txt \in UpstreamBodies(loc[frame(r)].size)
    /\ LET l == loc[frame(r)]
           status == Last(calls[r]).status
           done == SetLast(calls[r], "txt", txt)
           items == itemsOf(txt)
           hits == stagnation(firstId(items), l.lastFirstId, l.stagnationHits)
           exit == pageSizeExit(items.len, l.size, hits, l.page)
           a == IF exit = "stagnation" THEN <<>> ELSE push(l.all, items)
           l1 == [l EXCEPT !.stagnationHits = hits,
                           !.lastFirstId = firstId(items),
                           !.all = a,
                           !.page = IF exit \in {"safety", "continue"}
                                    THEN @ + 1 ELSE @]
       IN  IF ~ok(status)
           THEN /\ res' = [res EXCEPT ![r] = upstreamError(@, status, txt)]
                /\ pc' = [pc EXCEPT ![r] = "done"]
                /\ calls' = [calls EXCEPT ![r] = done]
                /\ UNCHANGED loc
           ELSE IF ParseThrows(txt) \/ ItemsThrows(txt)
           THEN /\ res' = [res EXCEPT ![r] = catch(@, req[r].route)]
                /\ pc' = [pc EXCEPT ![r] = "done"]
                /\ calls' = [calls EXCEPT ![r] = done]
                /\ UNCHANGED loc
           ELSE IF exit = "continue"
           THEN /\ loc' = [loc EXCEPT ![frame(r)] = l1]
                /\ calls' = [calls EXCEPT
                                ![r] = Append(done, PageSizeCall(l1.page, l.size))]
                /\ pc' = [pc EXCEPT ![r] = "fetch"]
                /\ UNCHANGED res
           ELSE IF returnsPageSize(a)
           THEN /\ loc' = [loc EXCEPT ![frame(r)] = l1]
                /\ calls' = [calls EXCEPT ![r] = done]
                /\ res' = [res EXCEPT
                              ![r] = json(@, @.status, AggBody("page/size", a))]
                /\ pc' = [pc EXCEPT ![r] = "done"]
           ELSE /\ loc' = [loc EXCEPT
                              ![frame(r)] =
                                  [l1 EXCEPT !.phase = "offset/limit",
                                             !.offset = 0,
                                             !.limit = l.size,
                                             !.all2 = <<>>,
                                             !.safety = 0]]
                /\ calls' = [calls EXCEPT
                                ![r] = Append(done, OffsetLimitCall(0, l.size))]
                /\ pc' = [pc EXCEPT ![r] = "fetch"]
                /\ UNCHANGED res
    /\ UNCHANGED <<LODGIFY_API_KEY, req>>

\* one iteration of the offset/limit loop from r.text() on, with what
\* follows it up to the next await or the response
OffsetLimitStep(r, txt) ==
    /\ pc[r] = "text"
    /\ loc[frame(r)].phase = "offset/limit"
    /\ txt \in UpstreamBodies(loc[frame(r)].limit)
    /\ LET l == loc[frame(r)]
           status == Last(calls[r]).status
           done == SetLast(calls[r], "txt", txt)
           items == itemsOf(txt)
           exit == offsetExit(items.len, l.limit, l.safety)
           a == push(l.all2, items)
           l1 == [l EXCEPT !.all2 = a,
                           !.offset = IF exit \in {"safety", "continue"}
                                      THEN advance(@, l.limit) ELSE @,
                           !.safety = IF exit \in {"safety", "continue"}
                                      THEN @ + 1 ELSE @]
       IN  IF ~ok(status)
           THEN /\ res' = [res EXCEPT ![r] = upstreamError(@, status, txt)]
                /\ pc' = [pc EXCEPT ![r] = "done"]
                /\ calls' = [calls EXCEPT ![r] = done]
                /\ UNCHANGED loc
           ELSE IF ParseThrows(txt) \/ ItemsThrows(txt)
           THEN /\ res' = [res EXCEPT ![r] = catch(@, req[r].route)]
                /\ pc' = [pc EXCEPT ![r] = "done"]
                /\ calls' = [calls EXCEPT ![r] = done]
                /\ UNCHANGED loc
           ELSE IF exit = "continue"
           THEN /\ loc' = [loc EXCEPT ![frame(r)] = l1]
                /\ calls' = [calls EXCEPT
                                ![r] = Append(done,
                                              OffsetLimitCall(l1.offset, l.limit))]
                /\ pc' = [pc EXCEPT ![r] = "fetch"]
                /\ UNCHANGED res
           ELSE /\ loc' = [loc EXCEPT ![frame(r)] = l1]
                /\ calls' = [calls EXCEPT ![r] = done]
                /\ res' = [res EXCEPT
                              ![r] = json(@, @.status, AggBody("offset/limit", a))]
                /\ pc' = [pc EXCEPT ![r] = "done"]
    /\ UNCHANGED <<LODGIFY_API_KEY, req>>

Next ==
    \/ \E r \in Runs : Data(r)
    \/ \E r \in Runs : Properties(r)
    \/ \E r \in Runs : Bookings(r)
    \/ \E r \in Runs, status \in UpStatuses : FetchResolve(r, status)
    \/ \E r \in Runs, e \in FetchErrors : FetchReject(r, e)
    \/ \E r \in Runs : TextReject(r)
    \/ \E r \in Runs, txt \in Bodies : DataRelay(r, txt)
    \/ \E r \in Runs, txt \in Bodies : LodgifyGetRelay(r, txt)
    \/ \E r \in Runs, txt \in Bodies : PageSizeStep(r, txt)
    \/ \E r \in Runs, txt \in Bodies : OffsetLimitStep(r, txt)

Spec == Init /\ [][Next]_vars


\* ---- vocabulary of the properties ---------------------------------------
\* the request of run r reached the bookings aggregation (it passed the key
\* check and took no single-page branch)
Aggregating(r) == loc[r].phase \in {"page/size", "offset/limit"}
\* run r is a bookings request without a page parameter, served with a key
AggregateRequest(r) ==
    /\ LODGIFY_API_KEY
    /\ req[r].route = "bookings"
    /\ req[r].page = QAbsent
Responded(r) == pc[r] = "done"
\* the answer to call c is complete: a 2xx status and a page of items
Answered(c) == c.status # 0 /\ c.txt.k # "none"
IsPage(c) == Answered(c) /\ ok(c.status) /\ c.txt.k = "items"
Full(c, S) == IsPage(c) /\ c.txt.len = S
\* the indices of the calls of run r made under a scheme
CallsOf(r, scheme) == {i \in 1..Len(calls[r]) : calls[r][i].scheme = scheme}

\* the items of the pages of cs fetched under scheme, in call order
RECURSIVE pagesOf(_, _)
pagesOf(cs, scheme) ==
    IF cs = <<>> THEN <<>>
    ELSE LET c == Head(cs)
         IN  IF c.scheme = scheme /\ IsPage(c) /\ c.txt.len > 0
             THEN <<itemsOf(c.txt)>> \o pagesOf(Tail(cs), scheme)
             ELSE pagesOf(Tail(cs), scheme)

\* the success response of an aggregation, as the client sees it
Success(r, mode, items) ==
    /\ res[r].sent = 1
    /\ res[r].status = DefaultStatus
    /\ res[r].body.kind = "agg"
    /\ res[r].body.ok
    /\ res[r].body.mode = mode
    /\ res[r].body.items = items
    /\ res[r].body.total = length(items)

\* C1 (as claimed): an aggregate run whose page/size fetches each return S
\* items until one returns fewer than S ends with a success response whose
\* items are the concatenation, in call order, of all fetched pages and
\* whose mode is "page/size".
C1_ShortPageEndsPageSize ==
    \A r \in Runs :
        LET ps == CallsOf(r, "page/size")
        IN  (/\ AggregateRequest(r)
             /\ Responded(r)
             /\ loc[r].size \in SizeMin..SizeMax
             /\ ps # {}
             /\ \A i \in ps : /\ IsPage(calls[r][i])
                              /\ (i + 1 \in ps => calls[r][i].txt.len = loc[r].size)
                              /\ (i + 1 \notin ps => calls[r][i].txt.len < loc[r].size))
            => /\ Success(r, "page/size", pagesOf(calls[r], "page/size"))
               /\ ps = 1..Len(calls[r])


\* calls i, i+1 (and i+2 when three) of run r are page/size fetches that each
\* returned a full page, all with first-item id f
SameFirstId(r, i, n, f) ==
    \A j \in i..(i + n - 1) :
        /\ j \in CallsOf(r, "page/size")
        /\ Full(calls[r][j], loc[r].size)
        /\ calls[r][j].txt.first = f

\* the call after call i of run r is the first offset/limit fetch
SwitchedAfter(r, i) ==
    /\ Len(calls[r]) > i
    /\ calls[r][i + 1].scheme = "offset/limit"
    /\ calls[r][i + 1].offset = 0
    /\ calls[r][i + 1].limit = loc[r].size
    /\ loc[r].all = <<>>
    /\ (Responded(r) /\ res[r].body.kind = "agg"
            => Success(r, "offset/limit", pagesOf(calls[r], "offset/limit")))

C3_EmptyFirstPageEnds ==
    \A r \in Runs :
        (/\ Aggregating(r)
         /\ calls[r][1].page = 1
         /\ Answered(calls[r][1])
         /\ ok(calls[r][1].status)
         /\ calls[r][1].txt \in {TxtItems(null, 0), TxtObj})
        => /\ Len(calls[r]) = 1
           /\ Responded(r)
           /\ Success(r, "page/size", <<>>)


\* C4: a run that exceeds the page safety bound (page > MaxPage, page/size
\* mode) or the iteration safety bound (safety > MaxSafety, offset/limit
\* mode) stops fetching and answers 200, ok: true, with exactly the items
\* accumulated in that mode; it sends no error response.
C4_SafetyBoundEndsInSuccess ==
    \A r \in Runs :
        /\ (Aggregating(r) /\ loc[r].page > MaxPage)
            => /\ Responded(r)
               /\ Len(calls[r]) = MaxPage
               /\ loc[r].all = pagesOf(calls[r], "page/size")
               /\ Success(r, "page/size", loc[r].all)
        /\ (Aggregating(r) /\ loc[r].safety > MaxSafety)
            => /\ Responded(r)
               /\ Cardinality(CallsOf(r, "offset/limit")) = MaxSafety + 1
               /\ loc[r].all2 = pagesOf(calls[r], "offset/limit")
               /\ Success(r, "offset/limit", loc[r].all2)

\* a run stopped by the page safety bound
C4_Witness ==
    \E r \in Runs :
        /\ Aggregating(r)
        /\ loc[r].page > MaxPage
        /\ \A i \in 1..MaxPage : Full(calls[r][i], loc[r].size)

\* a run stopped by the iteration safety bound of the fallback
C4_WitnessOffset ==
    \E r \in Runs :
        /\ Aggregating(r)
        /\ loc[r].safety > MaxSafety
        /\ Full(Last(calls[r]), loc[r].size)

\* C5 (as claimed): a bookings request whose page parameter is a number
\* (0 included) never enters the aggregation: one upstream call, page/size
\* with the client's page value, and its answer relayed.
C5_ExplicitPageBypasses ==
    \A r \in Runs :
        (/\ LODGIFY_API_KEY
         /\ req[r].route = "bookings"
         /\ req[r].page.k = "num"
         /\ pc[r] # "new")
        => /\ ~Aggregating(r)
           /\ Len(calls[r]) = 1
           /\ calls[r][1].scheme = "page/size"
           /\ calls[r][1].page = req[r].page.v
           /\ (Responded(r) /\ Answered(calls[r][1])
                => /\ res[r].status = calls[r][1].status
                   /\ res[r].body.kind = "relay"
                   /\ res[r].body.txt = calls[r][1].txt)

\* C6: without an API key every bookings and properties request gets the
\* fixed 500 missing_lodgify_key response, no upstream call is made for it
\* and no aggregation state is created.
C6_MissingKeyNoUpstream ==
    \A r \in Runs :
        (~LODGIFY_API_KEY /\ req[r].route \in Routes)
        => /\ calls[r] = <<>>
           /\ loc[r] = NoLoc
           /\ pc[r] \in {"new", "done"}
           /\ (Responded(r)
                => /\ res[r].sent = 1
                   /\ res[r].status = ErrorStatus
                   /\ res[r].ctype = "json"
                   /\ res[r].body.kind = "error"
                   /\ ~res[r].body.ok
                   /\ res[r].body.error = "missing_lodgify_key")

\* a bookings request answered without a key
C6_Witness ==
    \E r \in Runs :
        /\ ~LODGIFY_API_KEY
        /\ req[r].route = "bookings"
        /\ Responded(r)

\* C7 (as claimed): whenever an upstream call times out, in passthrough and
\* at any fetch of an aggregate run alike, the client gets a 504 whose
\* error is "lodgify_timeout".
C7_TimeoutIs504 ==
    \A r \in Runs :
        (calls[r] # <<>> /\ Last(calls[r]).err = "AbortError")
        => /\ Responded(r)
           /\ res[r].sent = 1
           /\ res[r].status = TimeoutStatus
           /\ res[r].body.error = "lodgify_timeout"

\* C8: in an aggregate run a fetch answered with a non-2xx status is the
\* last fetch of the run, and once its body is read the response carries
\* that status and that body unchanged and none of the accumulated items.
C8_UpstreamErrorAborts ==
    \A r \in Runs : \A i \in 1..Len(calls[r]) :
        LET c == calls[r][i]
        IN  (Aggregating(r) /\ c.status # 0 /\ ~ok(c.status))
            => /\ i = Len(calls[r])
               /\ (c.txt.k # "none"
                    => /\ Responded(r)
                       /\ res[r].sent = 1
                       /\ res[r].status = c.status
                       /\ res[r].ctype = "text"
                       /\ res[r].body.kind = "relay"
                       /\ res[r].body.txt = c.txt
                       /\ res[r].body.items = <<>>
                       /\ res[r].body.total = 0)

\* an upstream error relayed while items of earlier pages were accumulated
C8_Witness ==
    \E r \in Runs :
        /\ Aggregating(r)
        /\ Responded(r)
        /\ loc[r].all # <<>>
        /\ Answered(Last(calls[r]))
        /\ ~ok(Last(calls[r]).status)
        /\ Last(calls[r]).txt.k = "text"

\* C9 (as claimed): a 2xx page whose body is not JSON, or is JSON without
\* an items array, counts as an empty page: a run whose last fetch got such
\* a body ends with a success response, never with an error response.
C9_MalformedBodyIsEmptyPage ==
    \A r \in Runs :
        (/\ Aggregating(r)
         /\ Responded(r)
         /\ Answered(Last(calls[r]))
         /\ ok(Last(calls[r]).status)
         /\ Last(calls[r]).txt \in {TxtText, TxtNull, TxtObj})
        => /\ res[r].status = DefaultStatus
           /\ res[r].body.kind = "agg"
           /\ res[r].body.ok

\* the last page fetched by run r was a full page
LastPageFull(r) ==
    /\ IsPage(Last(calls[r]))
    /\ ~lt(Last(calls[r]).txt.len, loc[r].size)
    /\ loc[r].size # NaN
\* run r ended with one response: a success or an error
OneResponse(r) ==
    /\ res[r].sent = 1
    /\ \/ res[r].body.kind = "agg" /\ res[r].body.ok
       \/ res[r].body.kind = "error" /\ ~res[r].body.ok
       \/ res[r].body.kind = "relay" /\ ~ok(res[r].status)

\* C10 (as claimed): an aggregate run ends with a success response or an
\* error response, and never with a success response when the last page
\* it fetched was a full page of S items.
C10_SuccessOnlyWhenComplete ==
    \A r \in Runs :
        (Aggregating(r) /\ Responded(r))
        => /\ OneResponse(r)
           /\ (res[r].body.kind = "agg" => ~LastPageFull(r))

\* C10 (amended): an aggregate run ends with a success response or an error
\* response, and with a success response after a full last page only when a
\* safety bound stopped the loop (page > MaxPage or safety > MaxSafety).
C10_SuccessCompleteOrSafetyStop ==
    \A r \in Runs :
        (Aggregating(r) /\ Responded(r))
        => /\ OneResponse(r)
           /\ (res[r].body.kind = "agg" /\ LastPageFull(r)
                => \/ res[r].body.mode = "page/size" /\ loc[r].page > MaxPage
                   \/ res[r].body.mode = "offset/limit"
                        /\ loc[r].safety > MaxSafety)

\* a success response after a full last page
C10_Witness ==
    \E r \in Runs :
        /\ Aggregating(r)
        /\ Responded(r)
        /\ res[r].body.kind = "agg"
        /\ LastPageFull(r)

\* ---- C11 ------------------------------------------------------------------
\* what the program's scheduling guarantees: a received request starts its
\* handler, and an armed timer fires unless the fetch settles first.  The
\* upstream owes nothing: neither headers nor a body.
Fairness ==
    /\ WF_vars(\E r \in Runs : Data(r) \/ Properties(r) \/ Bookings(r))
    /\ \A r \in Runs : WF_vars(FetchReject(r, "AbortError"))

LiveSpec == Spec /\ Fairness

\* C11: every inbound request eventually receives a response, whatever the
\* upstream does (an upstream that stalls after the headers, and the finance
\* route, included).
C11_EveryRequestAnswered == \A r \in Runs : <>(pc[r] = "done")

\* ---- C12 ------------------------------------------------------------------
\* C12: an upstream call that fails with a generic network error (not a
\* timeout) is answered with status 502, which differs from the 504 of a
\* timeout.
C12_NetworkErrorIs502 ==
    \A r \in Runs :
        (/\ Responded(r)
         /\ req[r].route \in Routes
         /\ calls[r] # <<>>
         /\ Last(calls[r]).err = "TypeError")
        => /\ res[r].status = 502
           /\ res[r].status # TimeoutStatus

\* ---- C13 ------------------------------------------------------------------
\* the page size call c asks the upstream for
sizeOf(c) == IF c.scheme = "offset/limit" THEN c.limit ELSE c.size

\* C13: whatever size the client supplies, every upstream fetch of a bookings
\* request asks for a page size S with 1 <= S <= 500, and S = 200 when size
\* is absent.
C13_SizeClamped ==
    \A r \in Runs :
        req[r].route = "bookings"
        => \A i \in 1..Len(calls[r]) :
              /\ sizeOf(calls[r][i]) \in SizeMin..SizeMax
              /\ (req[r].size = QAbsent
                    => sizeOf(calls[r][i]) = SizeDefault)

\* ---- C14 ------------------------------------------------------------------
\* C14: every response to a bookings or properties request that passed the
\* key check carries the three anti-cache headers.
C14_AntiCacheOnEveryResponse ==
    \A r \in Runs :
        (Responded(r) /\ req[r].route \in Routes /\ LODGIFY_API_KEY)
        => res[r].sent = 1 /\ res[r].nocache

\* the 500 of the bookings handler's catch, sent with the headers
C14_Witness ==
    \E r \in Runs :
        /\ Responded(r)
        /\ Aggregating(r)
        /\ LODGIFY_API_KEY
        /\ res[r].status = ErrorStatus
        /\ res[r].body.error = "lodgify_bookings_failed"
        /\ res[r].nocache

\* ---- C15 ------------------------------------------------------------------
IsPrefix(a, b) == Len(a) <= Len(b) /\ SubSeq(b, 1, Len(a)) = a
\* the collection the loop of the current mode accumulates into
accumulated(l) == IF l.phase = "offset/limit" THEN l.all2 ELSE l.all
\* run r sends its success response in this step
SendsSuccess(r) ==
    /\ ~Responded(r)
    /\ pc'[r] = "done"
    /\ res'[r].body.kind = "agg"

\* C15 (as claimed): within an aggregate run the accumulated collection
\* before a loop iteration is a prefix of the collection after it, up to the
\* response.
C15_AppendOnly ==
    [][\A r \in Runs :
          Aggregating(r)
          => /\ IsPrefix(accumulated(loc[r]), accumulated(loc'[r]))
             /\ (SendsSuccess(r)
                    => res'[r].body.items = accumulated(loc'[r]))]_vars

\* C15 (amended): each mode's collection is append-only, except that the
\* iteration that detects stagnation empties the page/size collection and
\* the offset/limit collection starts empty; a success response carries the
\* collection of the mode it names.
C15_AppendOnlyPerMode ==
    [][\A r \in Runs :
          Aggregating(r)
          => /\ \/ IsPrefix(loc[r].all, loc'[r].all)
                \/ /\ loc[r].phase = "page/size"
                   /\ loc'[r].phase = "offset/limit"
                   /\ loc'[r].stagnationHits >= 2
                   /\ loc'[r].all = <<>>
             /\ IsPrefix(loc[r].all2, loc'[r].all2)
             /\ (loc[r].phase = "page/size" => loc[r].all2 = <<>>)
             /\ (SendsSuccess(r)
                    => res'[r].body.items =
                         IF res'[r].body.mode = "page/size"
                         THEN loc'[r].all ELSE loc'[r].all2)]_vars

\* a run that discarded its page/size collection on stagnation and answered
\* with an offset/limit collection grown over two iterations
C15_Witness ==
    \E r \in Runs :
        /\ Aggregating(r)
        /\ Responded(r)
        /\ loc[r].stagnationHits >= 2
        /\ loc[r].all = <<>>
        /\ Len(loc[r].all2) >= 2
        /\ Success(r, "offset/limit", loc[r].all2)

\* ---- C16 ------------------------------------------------------------------
\* C16: an aggregate run issues an offset/limit fetch, or answers with mode
\* "offset/limit", only after its page/size phase ended with the stagnation
\* counter at 2.
C16_OffsetLimitOnlyByStagnation ==
    \A r \in Runs :
        (Aggregating(r)
            /\ \/ CallsOf(r, "offset/limit") # {}
               \/ Responded(r) /\ res[r].body.kind = "agg"
                    /\ res[r].body.mode = "offset/limit")
        => loc[r].stagnationHits >= 2

\* ---- C17 ------------------------------------------------------------------
\* call c was answered with a page the page/size loop went through
Processed(c) ==
    /\ Answered(c)
    /\ ok(c.status)
    /\ ~ParseThrows(c.txt)
    /\ ~ItemsThrows(c.txt)
\* the page/size fetches of run r the loop went through: all of them but,
\* at most, the last
processedPages(r) ==
    LET k == Cardinality(CallsOf(r, "page/size"))
    IN  IF k > 0 /\ ~Processed(calls[r][k]) THEN k - 1 ELSE k
firstIdOf(c) == firstId(itemsOf(c.txt))
\* the stagnation counter the rule of C17 gives after n page/size fetches
RECURSIVE counterByRule(_, _)
counterByRule(cs, n) ==
    IF n <= 1 THEN 0
    ELSE IF firstIdOf(cs[n]) # null /\ firstIdOf(cs[n]) = firstIdOf(cs[n - 1])
         THEN counterByRule(cs, n - 1) + 1
         ELSE 0

\* C17: after each page/size fetch the stagnation counter is one more than
\* before when the page's first-item id is non-null and equals the previous
\* page's, and 0 in every other case, for every non-null id (0 included).
C17_StagnationCounterRule ==
    \A r \in Runs :
        Aggregating(r)
        => loc[r].stagnationHits = counterByRule(calls[r], processedPages(r))

\* ---- C18 ------------------------------------------------------------------
\* the index of the first offset/limit call of run r (0 when there is none)
firstOffsetCall(r) ==
    IF CallsOf(r, "offset/limit") = {} THEN 0
    ELSE CHOOSE i \in CallsOf(r, "offset/limit") :
            \A j \in CallsOf(r, "offset/limit") : i <= j
\* call c returned zero items or fewer than S items
ZeroOrShort(c, S) == Processed(c) /\ itemsOf(c.txt).len < S

\* C18: with S the page size in 1..500, the k-th offset/limit fetch
\* (k = 0, 1, ...) has offset = k*S and limit = S; the first such fetch that
\* returns zero items or fewer than S is the last call of the run, and the
\* response is then a success with mode "offset/limit" whose items are the
\* items of the offset/limit fetches alone, in call order.
C18_OffsetLimitMode ==
    \A r \in Runs :
        (Aggregating(r) /\ loc[r].size \in SizeMin..SizeMax)
        => \A i \in CallsOf(r, "offset/limit") :
              /\ calls[r][i].offset = (i - firstOffsetCall(r)) * loc[r].size
              /\ calls[r][i].limit = loc[r].size
              /\ ZeroOrShort(calls[r][i], loc[r].size)
                    => /\ i = Len(calls[r])
                       /\ Responded(r)
                       /\ Success(r, "offset/limit",
                                  pagesOf(calls[r], "offset/limit"))

\* a run whose second offset/limit fetch, at offset S >= 2, came back short
\* and ended it
C18_Witness ==
    \E r \in Runs :
        /\ Aggregating(r)
        /\ Responded(r)
        /\ loc[r].size >= 2
        /\ Cardinality(CallsOf(r, "offset/limit")) = 2
        /\ Last(calls[r]).offset = loc[r].size
        /\ ZeroOrShort(Last(calls[r]), loc[r].size)
        /\ Last(calls[r]).txt.len > 0
        /\ Success(r, "offset/limit", loc[r].all2)

\* ---- C19 ------------------------------------------------------------------
\* the calls of run r still awaited: neither rejected nor fully answered
InFlight(r) ==
    {i \in 1..Len(calls[r]) :
        calls[r][i].err = "" /\ ~Answered(calls[r][i]) /\ ~Responded(r)}

\* C19: in an aggregate run at most one upstream call is in flight, a call
\* is issued only when status and body of the one before it are known, the
\* page/size fetches ask for page 1, 2, 3, ... and none of them follows an
\* offset/limit fetch.
C19_StrictlySequential ==
    \A r \in Runs :
        Aggregating(r)
        => /\ Cardinality(InFlight(r)) <= 1
           /\ \A i \in 1..(Len(calls[r]) - 1) :
                 /\ Answered(calls[r][i])
                 /\ calls[r][i].err = ""
                 /\ (calls[r][i].scheme = "offset/limit"
                        => calls[r][i + 1].scheme = "offset/limit")
           /\ \A i \in CallsOf(r, "page/size") : calls[r][i].page = i

\* the offset/limit fetch that follows pages 1, 2 and 3 is in flight
C19_Witness ==
    \E r \in Runs :
        /\ Aggregating(r)
        /\ Cardinality(CallsOf(r, "page/size")) = 3
        /\ calls[r][3].page = 3
        /\ Len(calls[r]) = 4
        /\ calls[r][4].scheme = "offset/limit"
        /\ InFlight(r) = {4}

\* ---- C20 ------------------------------------------------------------------
\* the upstream answered every fetch of run r with the same full page of S
\* items, whose first item has id f
SamePageEveryFetch(r, f) ==
    /\ calls[r] # <<>>
    /\ \A i \in 1..Len(calls[r]) :
          /\ Full(calls[r][i], loc[r].size)
          /\ calls[r][i].txt.first = f

\* C20: when the upstream ignores the pagination parameters and answers
\* every fetch, page/size and offset/limit alike, with the same full page
\* (stated here for a page the stagnation test can recognise: its first id
\* is truthy), a success response holds that page's items at most once.
C20_NoDuplicatedData ==
    \A r \in Runs, f \in FirstIds :
        (/\ Aggregating(r)
         /\ Responded(r)
         /\ res[r].body.kind = "agg"
         /\ Truthy(f)
         /\ SamePageEveryFetch(r, f))
        => Len(res[r].body.items) <= 1

\* ---- C21 ------------------------------------------------------------------
\* two requests served at once: express starts a handler invocation per
\* request and interleaves them at their awaits
ConcRuns == {1, 2}
ConcRequests ==
    {[route |-> "bookings", page |-> QAbsent, size |-> QNum(2)]}
ConcStatuses == {200, 503}
ConcBodies ==
    {TxtText} \cup {TxtItems(f, n) : f \in {1, 2}, n \in {0, 1, 2}}

ConcInit ==
    /\ LODGIFY_API_KEY = TRUE
    /\ req \in [ConcRuns -> ConcRequests]
    /\ pc = [r \in ConcRuns |-> "new"]
    /\ loc = [r \in ConcRuns |-> NoLoc]
    /\ res = [r \in ConcRuns |-> NoRes]
    /\ calls = [r \in ConcRuns |-> <<>>]

ConcNext ==
    \/ \E r \in ConcRuns : Bookings(r)
    \/ \E r \in ConcRuns, status \in ConcStatuses : FetchResolve(r, status)
    \/ \E r \in ConcRuns : FetchReject(r, "AbortError")
    \/ \E r \in ConcRuns : TextReject(r)
    \/ \E r \in ConcRuns, txt \in ConcBodies : PageSizeStep(r, txt)
    \/ \E r \in ConcRuns, txt \in ConcBodies : OffsetLimitStep(r, txt)

ConcSpec == ConcInit /\ [][ConcNext]_vars

\* the step changes something of run r
Moves(r) ==
    \/ pc'[r] # pc[r]
    \/ loc'[r] # loc[r]
    \/ res'[r] # res[r]
    \/ calls'[r] # calls[r]
\* the step is one of run r's own: its handler advanced or its call settled
OwnStep(r) == pc'[r] # pc[r] \/ calls'[r] # calls[r]

\* the response of an aggregate run that ran alone, from the answers cs its
\* upstream calls got: the catch's 500 after a rejected call or a body that
\* does not parse, the relayed answer after a non-2xx status, and otherwise
\* a success in the mode of the last call with the pages fetched in it
aloneResponse(cs) ==
    LET c == Last(cs)
        r0 == setNoCache(NoRes)
    IN  IF c.err # "" THEN catch(r0, "bookings")
        ELSE IF ~ok(c.status) THEN upstreamError(r0, c.status, c.txt)
        ELSE IF ParseThrows(c.txt) \/ ItemsThrows(c.txt)
        THEN catch(r0, "bookings")
        ELSE json(r0, DefaultStatus, AggBody(c.scheme, pagesOf(cs, c.scheme)))

\* C21: whatever the interleaving of two aggregate runs, a step changes the
\* locals (page, offset, stagnation counter, last first-item id, accumulated
\* items), the calls and the response of one run only, the run whose step
\* it is, and a run's response is the one it would produce alone against
\* the same upstream answers.
C21_RunsIsolated ==
    [][\A r \in ConcRuns :
          /\ Moves(r) => OwnStep(r)
          /\ OwnStep(r) => \A q \in ConcRuns \ {r} : ~Moves(q)
          /\ (pc'[r] = "done" => res'[r] = aloneResponse(calls'[r]))]_vars

\* both runs answered, each with its own items, after their fetches
\* alternated
C21_Witness ==
    /\ \A r \in ConcRuns :
          /\ Responded(r)
          /\ res[r].body.kind = "agg"
          /\ Len(calls[r]) >= 2
    /\ res[1].body.items # res[2].body.items
    /\ req[1] = req[2]

\* ---- C22 ------------------------------------------------------------------
\* an upstream that always answers, and handlers that always run: no step
\* that can be taken is put off for ever
AnswerSpec == Spec /\ WF_vars(Next)

\* the fetches of run r stay within the two safety bounds: MaxPage in
\* page/size mode (5000 in the source), MaxSafety + 1 in offset/limit mode
\* (20001 in the source)
FetchesBounded(r) ==
    /\ Cardinality(CallsOf(r, "page/size")) <= MaxPage
    /\ Cardinality(CallsOf(r, "offset/limit")) <= MaxSafety + 1

\* C22: an aggregate run issues at most MaxPage page/size fetches and at
\* most MaxSafety + 1 offset/limit fetches whatever the upstream returns,
\* and with an upstream that always answers it reaches a response.
C22_BoundedFetches ==
    /\ [](\A r \in Runs : Aggregating(r) => FetchesBounded(r))
    /\ \A r \in Runs : Aggregating(r) ~> Responded(r)

\* a run that used up both bounds and answered with what it had
C22_Witness ==
    \E r \in Runs :
        /\ Aggregating(r)
        /\ Responded(r)
        /\ res[r].body.kind = "agg"
        /\ Cardinality(CallsOf(r, "page/size")) = MaxPage
        /\ Cardinality(CallsOf(r, "offset/limit")) = MaxSafety + 1

\* ---- C23 ------------------------------------------------------------------
\* C23: on every path of the bookings and properties handlers at most one
\* response is sent, and once it is sent the run issues no upstream fetch
\* and sends nothing more.
C23_AtMostOneResponse ==
    [][\A r \in Runs :
          req[r].route \in Routes
          => /\ res'[r].sent <= 1
             /\ (res'[r].sent = 1 => pc'[r] = "done")
             /\ (res[r].sent >= 1
                    => /\ Len(calls'[r]) = Len(calls[r])
                       /\ res'[r] = res[r])]_vars

\* lodgifyGet answered a failed fetch with its 504 and the handler sent
\* nothing after it
C23_Witness ==
    \E r \in Runs :
        /\ req[r].route \in Routes
        /\ loc[r].phase = "lodgifyGet"
        /\ Responded(r)
        /\ Last(calls[r]).err # ""
        /\ res[r].sent = 1
        /\ res[r].status = TimeoutStatus

====
